---------------------------- MODULE Spec2Model ----------------------------
(***************************************************************************)
(* A model of the BU Course Planner backend (backend/app/routes.py).       *)
(*                                                                         *)
(* Text is modelled as a sequence of one-character strings, so that        *)
(* str.lower(), the substring test `a in b` and the ordering used by       *)
(* sorted() are computed rather than assumed.  A Python dict is a function *)
(* whose DOMAIN is the set of keys that are present.  A JSON value that is *)
(* not text (4.0, false, null, [], a nested object) is a one-element       *)
(* sequence holding a token that starts with "#", which can never be       *)
(* confused with text because every element of a text is one character.    *)
(***************************************************************************)
EXTENDS Integers, Sequences, FiniteSets, TLC

VARIABLES
    primary,    \* processing_csv/processed_courses_2022_onwards.json
    fallback,   \* processing_csv/processed_courses_sample.json
    apiKey,     \* Config.GOOGLE_API_KEY
    last,       \* the request handled last, with its response
    inFlight    \* the requests being handled concurrently, step by step

vars == <<primary, fallback, apiKey, last, inFlight>>

---------------------------------------------------------------------------
(* Text *)

Digits == <<"0", "1", "2", "3", "4", "5", "6", "7", "8", "9">>

Upper == <<"A", "B", "C", "D", "E", "F", "G", "H", "I", "J", "K", "L", "M",
           "N", "O", "P", "Q", "R", "S", "T", "U", "V", "W", "X", "Y", "Z">>

LowerOf == <<"a", "b", "c", "d", "e", "f", "g", "h", "i", "j", "k", "l", "m",
             "n", "o", "p", "q", "r", "s", "t", "u", "v", "w", "x", "y", "z">>

\* The characters of the model in code-point order: ' ' < digits < A-Z < a-z.
Alphabet == <<" ">> \o Digits \o Upper \o LowerOf

Chars == {Alphabet[i] : i \in 1..Len(Alphabet)}

\* The rank of a character in code-point order (ord() up to a monotone map).
Code == [ch \in Chars |-> CHOOSE i \in 1..Len(Alphabet) : Alphabet[i] = ch]

\* str.lower() on one character.
LowerChar == [ch \in Chars |->
                 IF \E i \in 1..Len(Upper) : Upper[i] = ch
                 THEN LowerOf[CHOOSE i \in 1..Len(Upper) : Upper[i] = ch]
                 ELSE ch]

\* str.lower()
Lower(s) == [i \in 1..Len(s) |-> LowerChar[s[i]]]

\* Python's `a in b` on two strings.
IsSubstring(a, b) ==
    \E i \in 0..(Len(b) - Len(a)) : SubSeq(b, i + 1, i + Len(a)) = a

\* Python's `a < b` on two strings: lexicographic by code point.
StrLess(a, b) ==
    \E i \in 1..(Len(b)) :
        /\ i <= Len(a) + 1
        /\ \A j \in 1..(i - 1) : a[j] = b[j]
        /\ \/ i = Len(a) + 1
           \/ Code[a[i]] < Code[b[i]]

EmptyStr == <<>>

---------------------------------------------------------------------------
(* JSON values that are not text *)

NoneV == <<"#None">>
FalseV == <<"#False">>
TrueV == <<"#True">>
EmptyList == <<"#[]">>
Credits4 == <<"#4.0">>
Credits3 == <<"#3.0">>
NoPrereqs == <<"#{required: [], recommended: []}">>
SomePrereqs == <<"#{required: [CS1], recommended: []}">>
SomeHubs == <<"#[QR1]">>
LEC == <<"L", "E", "C">>
LAB == <<"L", "A", "B">>

\* The values Python's `not v` / `if v` treats as false.
Falsy == {EmptyStr, NoneV, FalseV, EmptyList}

Truthy(v) == v \notin Falsy

---------------------------------------------------------------------------
(* dict operations *)

\* d.get(k, default)
Get(d, k, default) == IF k \in DOMAIN d THEN d[k] ELSE default

\* d.setdefault(k, v): d afterwards
SetDefault(d, k, v) == IF k \in DOMAIN d THEN d ELSE d @@ (k :> v)

---------------------------------------------------------------------------
(* The dataset: what the two JSON files can hold *)

K1 == [id |-> <<"1">>, code |-> <<"C", "S", "1">>, title |-> <<"A", "l", "g", "o">>,
       subject |-> <<"C", "S">>, catalog_number |-> <<"1">>,
       department |-> <<"C", "o", "m", "p", "S", "c", "i">>,
       academic_group |-> <<"C", "A", "S">>,
       academic_org |-> <<"M", "a", "t", "h">>,
       level |-> <<"I", "n", "t", "r", "o">>]

K2 == [id |-> <<"2">>, code |-> <<"M", "A", "1">>, title |-> <<"C", "a", "l", "c">>,
       subject |-> <<"M", "A">>, catalog_number |-> <<"1">>,
       department |-> <<"M", "a", "t", "h">>,
       academic_group |-> <<"C", "A", "S">>,
       academic_org |-> EmptyStr,
       level |-> <<"A", "d", "v">>]

\* A sparse record: its id is another course's code, its department is empty.
K3 == [id |-> <<"M", "A", "1">>, title |-> <<"S", "t", "a", "t">>,
       department |-> EmptyStr,
       level |-> <<"i", "n", "t", "r", "o">>]

\* Shares its id with K2; carries an optional key already.
K4 == [id |-> <<"2">>, code |-> <<"c", "s", "2">>, title |-> <<"D", "a", "t", "a">>,
       subject |-> <<"c", "s">>,
       department |-> <<"c", "a", "s">>,
       academic_org |-> <<"C", "A", "S">>,
       level |-> <<"G", "r", "a", "d">>,
       credits |-> Credits3]

CourseUniverse == {K1, K2, K3, K4}

\* The longest course array a file holds.
MaxCourses == 2

RECURSIVE SeqsUpTo(_, _)
SeqsUpTo(S, n) ==
    IF n = 0 THEN {<<>>}
    ELSE LET shorter == SeqsUpTo(S, n - 1)
         IN  shorter \cup {Append(s, x) : s \in {t \in shorter : Len(t) = n - 1}, x \in S}

Collections == SeqsUpTo(CourseUniverse, MaxCourses)

\* A file is absent, present but unreadable, present but not JSON, or holds
\* a course array.
FileStates ==
    {[st |-> s, data |-> <<>>] : s \in {"absent", "unreadable", "malformed"}}
        \cup {[st |-> "ok", data |-> c] : c \in Collections}

\* The sample file is small.
SampleStates ==
    {[st |-> s, data |-> <<>>] : s \in {"absent", "unreadable", "malformed"}}
        \cup {[st |-> "ok", data |-> c] : c \in SeqsUpTo(CourseUniverse, 1)}

---------------------------------------------------------------------------
(* Dataset loader *)

\* with open(json_path, 'r') as f: json.load(f) -- the value, or an exception.
OpenAndParse(file) ==
    IF file.st = "ok" THEN [raised |-> FALSE, value |-> file.data]
    ELSE [raised |-> TRUE, value |-> <<>>]

\* A loader that turns to the sample file whenever the primary one fails.
LoadBodyFallbackOnFailure(prim, fall) ==
    IF prim.st = "ok" THEN OpenAndParse(prim)
    ELSE IF fall.st # "absent" THEN OpenAndParse(fall)
    ELSE [raised |-> FALSE, value |-> <<>>]

\* The body of the try block of load_courses_from_json.
LoadBody(prim, fall) ==
    IF prim.st # "absent" THEN OpenAndParse(prim)
    ELSE IF fall.st # "absent" THEN OpenAndParse(fall)
    ELSE [raised |-> FALSE, value |-> <<>>]

\* load_courses_from_json(): try: <body> except Exception: return []
load_courses_from_json(prim, fall) ==
    LET r == LoadBody(prim, fall)
    IN  IF r.raised THEN [raised |-> FALSE, value |-> <<>>] ELSE r

get_all_courses(prim, fall) == load_courses_from_json(prim, fall)

---------------------------------------------------------------------------
(* Course enhancer *)

\* d[k] = v unless d already holds a true value at k (`if not d.get(k)`).
SetIfFalsy(d, k, v) ==
    IF k \in DOMAIN d /\ Truthy(d[k]) THEN d
    ELSE [x \in DOMAIN d \cup {k} |-> IF x = k THEN v ELSE d[x]]

\* An enhancer that also replaces present values that are null, empty or false.
enhance_course_data_overwriting_falsy(course) ==
    LET e0 == course
        e1 == SetIfFalsy(e0, "short_title", Get(course, "title", EmptyStr))
        e2 == SetIfFalsy(e1, "credits", Credits4)
        e3 == SetIfFalsy(e2, "component", LEC)
        e4 == SetIfFalsy(e3, "repeatable", FalseV)
        e5 == SetIfFalsy(e4, "consent_required", FalseV)
        e6 == SetIfFalsy(e5, "prerequisites", NoPrereqs)
        e7 == SetIfFalsy(e6, "hub_requirements", EmptyList)
    IN  [course |-> course, enhanced |-> e7]

\* enhance_course_data(course): the argument object and the returned object
\* as they are after the call.
enhance_course_data(course) ==
    LET e0 == course           \* course.copy(): a new dict with the same items
        e1 == SetDefault(e0, "short_title", Get(course, "title", EmptyStr))
        e2 == SetDefault(e1, "credits", Credits4)
        e3 == SetDefault(e2, "component", LEC)
        e4 == SetDefault(e3, "repeatable", FalseV)
        e5 == SetDefault(e4, "consent_required", FalseV)
        e6 == SetDefault(e5, "prerequisites", NoPrereqs)
        e7 == SetDefault(e6, "hub_requirements", EmptyList)
    IN  [course |-> course, enhanced |-> e7]

\* [enhance_course_data(course) for course in courses]
EnhanceAll(courses) ==
    [i \in 1..Len(courses) |-> enhance_course_data(courses[i]).enhanced]

---------------------------------------------------------------------------
(* Responses *)

\* A handler's outcome: the HTTP status, the body, the course arrays the
\* dataset loader returned while the request was handled, and the number of
\* calls made to the AI collaborator.
Response(status, body, loads, aiCalls) ==
    [status |-> status, body |-> body, loads |-> loads, aiCalls |-> aiCalls]

Handled(op, req, resp) ==
    [op |-> op, req |-> req, status |-> resp.status, body |-> resp.body,
     loads |-> resp.loads, aiCalls |-> resp.aiCalls]

NoRequest ==
    [op |-> "none", req |-> <<>>, status |-> 0, body |-> <<>>,
     loads |-> <<>>, aiCalls |-> 0]

\* An exception that leaves a handler is answered 500 by the framework.
ServerError(loads, aiCalls) ==
    Response(500, <<"Internal Server Error">>, loads, aiCalls)

\* No response is waiting to be sent: the next request can be taken.
Idle == last.op = "none"

\* The response is sent.
Deliver ==
    /\ ~Idle
    /\ last' = NoRequest
    /\ UNCHANGED <<primary, fallback, apiKey, inFlight>>

---------------------------------------------------------------------------
(* GET /api/courses/ *)

list_courses(prim, fall) ==
    LET l == get_all_courses(prim, fall)
        courses == l.value
        enhanced_courses == EnhanceAll(courses)
    IN  IF l.raised THEN ServerError(<<>>, 0)
        ELSE Response(200,
                      [courses |-> enhanced_courses, total |-> Len(enhanced_courses)],
                      <<courses>>, 0)

---------------------------------------------------------------------------
(* GET /api/courses/{course_id} *)

\* next((c for c in courses if <test>), None), by index: 0 is None.
FirstById(courses, course_id) ==
    IF \E i \in 1..Len(courses) : courses[i].id = course_id
    THEN CHOOSE i \in 1..Len(courses) :
            /\ courses[i].id = course_id
            /\ \A j \in 1..(i - 1) : courses[j].id # course_id
    ELSE 0

FirstByCode(courses, course_id) ==
    IF \E i \in 1..Len(courses) : Get(courses[i], "code", NoneV) = course_id
    THEN CHOOSE i \in 1..Len(courses) :
            /\ Get(courses[i], "code", NoneV) = course_id
            /\ \A j \in 1..(i - 1) : Get(courses[j], "code", NoneV) # course_id
    ELSE 0

\* A lookup that tries the code before the id.
get_course_code_first(prim, fall, course_id) ==
    LET l == get_all_courses(prim, fall)
        courses == l.value
        byCode == FirstByCode(courses, course_id)
        course == IF byCode = 0 THEN FirstById(courses, course_id) ELSE byCode
    IN  IF l.raised THEN ServerError(<<>>, 0)
        ELSE IF course = 0
        THEN Response(404, <<"Course not found">>, <<courses>>, 0)
        ELSE Response(200, enhance_course_data(courses[course]).enhanced,
                      <<courses>>, 0)

get_course(prim, fall, course_id) ==
    LET l == get_all_courses(prim, fall)
        courses == l.value
        byId == FirstById(courses, course_id)
        course == IF byId = 0 THEN FirstByCode(courses, course_id) ELSE byId
    IN  IF l.raised THEN ServerError(<<>>, 0)
        ELSE IF course = 0
        THEN Response(404, <<"Course not found">>, <<courses>>, 0)
        ELSE Response(200, enhance_course_data(courses[course]).enhanced,
                      <<courses>>, 0)

---------------------------------------------------------------------------
(* GET /api/courses/search/ *)

Field(course, name) == Lower(Get(course, name, EmptyStr))

text_match(course, query) ==
    IF Truthy(query)
    THEN \/ IsSubstring(query, Field(course, "code"))
         \/ IsSubstring(query, Field(course, "title"))
         \/ IsSubstring(query, Field(course, "subject"))
         \/ IsSubstring(query, Field(course, "catalog_number"))
         \/ IsSubstring(query, Field(course, "department"))
    ELSE TRUE

\* A department filter that forgets academic_org.
dept_match_without_org(course, department) ==
    IF Truthy(department)
    THEN \/ IsSubstring(Lower(department), Field(course, "department"))
         \/ IsSubstring(Lower(department), Field(course, "academic_group"))
    ELSE TRUE

dept_match(course, department) ==
    IF Truthy(department)
    THEN \/ IsSubstring(Lower(department), Field(course, "department"))
         \/ IsSubstring(Lower(department), Field(course, "academic_group"))
         \/ IsSubstring(Lower(department), Field(course, "academic_org"))
    ELSE TRUE

level_match(course, level) ==
    IF Truthy(level)
    THEN IsSubstring(Lower(level), Field(course, "level"))
    ELSE TRUE

\* The for loop of search_courses from index i on, appending to results.
RECURSIVE SearchLoop(_, _, _, _, _, _)
SearchLoop(courses, i, query, department, level, results) ==
    IF i > Len(courses) THEN results
    ELSE LET course == courses[i]
             keep == /\ text_match(course, query)
                     /\ dept_match(course, department)
                     /\ level_match(course, level)
         IN  SearchLoop(courses, i + 1, query, department, level,
                        IF keep
                        THEN Append(results, enhance_course_data(course).enhanced)
                        ELSE results)

search_courses(prim, fall, q, department, level) ==
    LET l == get_all_courses(prim, fall)
        courses == l.value
    IN  IF l.raised THEN ServerError(<<>>, 0)
        ELSE IF ~Truthy(q) /\ ~Truthy(department) /\ ~Truthy(level)
        THEN LET enhanced_courses == EnhanceAll(courses)
             IN  Response(200,
                          [courses |-> enhanced_courses,
                           total |-> Len(enhanced_courses)],
                          <<courses>>, 0)
        ELSE LET query == IF Truthy(q) THEN Lower(q) ELSE EmptyStr
                 results == SearchLoop(courses, 1, query, department, level, <<>>)
             IN  Response(200, [courses |-> results, total |-> Len(results)],
                          <<courses>>, 0)

---------------------------------------------------------------------------
(* GET /api/departments/ and GET /api/subjects/ *)

\* sorted(list(S)) for a set of strings.
RECURSIVE Sorted(_)
Sorted(S) ==
    IF S = {} THEN <<>>
    ELSE LET m == CHOOSE x \in S : \A y \in S \ {x} : StrLess(x, y)
         IN  <<m>> \o Sorted(S \ {m})

\* A loop that tests `is not None` and so lets the empty string in.
RECURSIVE DepartmentsLoopKeepingEmpty(_, _, _)
DepartmentsLoopKeepingEmpty(courses, i, departments) ==
    IF i > Len(courses) THEN departments
    ELSE LET course == courses[i]
             dept == Get(course, "department", NoneV)
             org == Get(course, "academic_org", NoneV)
             group == Get(course, "academic_group", NoneV)
             d1 == IF dept # NoneV THEN departments \cup {dept} ELSE departments
             d2 == IF org # NoneV THEN d1 \cup {org} ELSE d1
             d3 == IF group # NoneV THEN d2 \cup {group} ELSE d2
         IN  DepartmentsLoopKeepingEmpty(courses, i + 1, d3)

\* The loop of list_departments from index i on, adding to departments.
RECURSIVE DepartmentsLoop(_, _, _)
DepartmentsLoop(courses, i, departments) ==
    IF i > Len(courses) THEN departments
    ELSE LET course == courses[i]
             dept == Get(course, "department", NoneV)
             org == Get(course, "academic_org", NoneV)
             group == Get(course, "academic_group", NoneV)
             d1 == IF Truthy(dept) /\ dept # EmptyStr
                   THEN departments \cup {dept} ELSE departments
             d2 == IF Truthy(org) /\ org # EmptyStr THEN d1 \cup {org} ELSE d1
             d3 == IF Truthy(group) /\ group # EmptyStr THEN d2 \cup {group} ELSE d2
         IN  DepartmentsLoop(courses, i + 1, d3)

list_departments(prim, fall) ==
    LET l == get_all_courses(prim, fall)
        courses == l.value
    IN  IF l.raised THEN ServerError(<<>>, 0)
        ELSE Response(200,
                      [departments |-> Sorted(DepartmentsLoop(courses, 1, {}))],
                      <<courses>>, 0)

RECURSIVE SubjectsLoop(_, _, _)
SubjectsLoop(courses, i, subjects) ==
    IF i > Len(courses) THEN subjects
    ELSE LET subject == Get(courses[i], "subject", NoneV)
         IN  SubjectsLoop(courses, i + 1,
                          IF Truthy(subject) /\ subject # EmptyStr
                          THEN subjects \cup {subject} ELSE subjects)

list_subjects(prim, fall) ==
    LET l == get_all_courses(prim, fall)
        courses == l.value
    IN  IF l.raised THEN ServerError(<<>>, 0)
        ELSE Response(200, [subjects |-> Sorted(SubjectsLoop(courses, 1, {}))],
                      <<courses>>, 0)

---------------------------------------------------------------------------
(* Request inputs *)

CourseIds == {<<"1">>, <<"2">>, <<"M", "A", "1">>, <<"c", "s", "2">>, <<"z">>}

Queries == {EmptyStr, <<"c", "s">>, <<"1">>, <<"M", "A">>}

DepartmentFilters == {NoneV, EmptyStr, <<"c", "a", "s">>, <<"M", "a", "t", "h">>}

LevelFilters == {NoneV, <<"I", "N", "T", "R", "O">>, <<"a", "d", "v">>}

---------------------------------------------------------------------------
(* The course endpoints as a state machine *)

ListCourses ==
    /\ Idle
    /\ last' = Handled("list_courses", <<>>, list_courses(primary, fallback))
    /\ UNCHANGED <<primary, fallback, apiKey, inFlight>>

GetCourse ==
    /\ Idle
    /\ \E course_id \in CourseIds :
            /\ last' = Handled("get_course", course_id,
                               get_course(primary, fallback, course_id))
            /\ UNCHANGED <<primary, fallback, apiKey, inFlight>>

SearchCourses ==
    /\ Idle
    /\ \E q \in Queries, department \in DepartmentFilters, level \in LevelFilters :
            /\ last' = Handled("search_courses",
                               [q |-> q, department |-> department, level |-> level],
                               search_courses(primary, fallback, q, department, level))
            /\ UNCHANGED <<primary, fallback, apiKey, inFlight>>

ListDepartments ==
    /\ Idle
    /\ last' = Handled("list_departments", <<>>, list_departments(primary, fallback))
    /\ UNCHANGED <<primary, fallback, apiKey, inFlight>>

ListSubjects ==
    /\ Idle
    /\ last' = Handled("list_subjects", <<>>, list_subjects(primary, fallback))
    /\ UNCHANGED <<primary, fallback, apiKey, inFlight>>

\* The offline CSV processor (or an operator) replaces or removes a file.
WritePrimary ==
    \E f \in FileStates :
        /\ f # primary
        /\ primary' = f
        /\ last' = NoRequest
        /\ UNCHANGED <<fallback, apiKey, inFlight>>

WriteFallback ==
    \E f \in SampleStates :
        /\ f # fallback
        /\ fallback' = f
        /\ last' = NoRequest
        /\ UNCHANGED <<primary, apiKey, inFlight>>

Init ==
    /\ primary \in FileStates
    /\ fallback \in SampleStates
    /\ apiKey = EmptyStr
    /\ last = NoRequest
    /\ inFlight = <<>>

Next ==
    \/ ListCourses
    \/ GetCourse
    \/ SearchCourses
    \/ ListDepartments
    \/ ListSubjects
    \/ WritePrimary
    \/ WriteFallback
    \/ Deliver

Spec == Init /\ [][Next]_vars

---------------------------------------------------------------------------
(* Properties of the course endpoints *)

CourseOps == {"list_courses", "get_course", "search_courses",
              "list_departments", "list_subjects"}

\* A filter is present when it was given and is not the empty string.
Present(x) == x # NoneV /\ x # EmptyStr

\* A missing field counts as the empty string.
FieldOrEmpty(c, f) == IF f \in DOMAIN c THEN c[f] ELSE EmptyStr

ContainedInSome(x, c, fields) ==
    \E f \in fields : IsSubstring(Lower(x), Lower(FieldOrEmpty(c, f)))

SatisfiesFilters(c, q, department, level) ==
    /\ Present(q) =>
         ContainedInSome(q, c, {"code", "title", "subject", "catalog_number",
                                "department"})
    /\ Present(department) =>
         ContainedInSome(department, c, {"department", "academic_group",
                                         "academic_org"})
    /\ Present(level) => ContainedInSome(level, c, {"level"})

\* C1: search_courses returns exactly the enhanced courses that satisfy every
\* present filter (q against code, title, subject, catalog_number, department;
\* department against department, academic_group, academic_org; level against
\* level; all case-insensitive containment), in the order of the loaded
\* collection, with total equal to the number of courses returned.
C1_SearchReturnsExactlyTheMatches ==
    last.op = "search_courses" =>
        LET loaded == last.loads[1]
            Keep(c) == SatisfiesFilters(c, last.req.q, last.req.department,
                                        last.req.level)
        IN  /\ last.status = 200
            /\ last.body.courses = EnhanceAll(SelectSeq(loaded, Keep))
            /\ last.body.total = Len(last.body.courses)

\* All three filters present, two courses loaded, the second one alone kept.
C1_Witness ==
    /\ last.op = "search_courses"
    /\ Present(last.req.q) /\ Present(last.req.department) /\ Present(last.req.level)
    /\ Len(last.loads[1]) = 2
    /\ Len(last.body.courses) = 1
    /\ last.body.courses[1].id = last.loads[1][2].id
    /\ last.body.courses[1].id # last.loads[1][1].id

\* C4: GET /api/courses/{x} returns the enhanced first course whose id is x;
\* failing that the enhanced first course whose code is x; failing that 404.
\* A match by id wins over a match by code that comes earlier.
C4_GetCourseByIdThenCode ==
    last.op = "get_course" =>
        LET loaded == last.loads[1]
            x == last.req
            ids == {i \in 1..Len(loaded) : loaded[i].id = x}
            codes == {i \in 1..Len(loaded) :
                         "code" \in DOMAIN loaded[i] /\ loaded[i].code = x}
            Least(S) == CHOOSE i \in S : \A j \in S : i <= j
        IN  IF ids # {}
            THEN /\ last.status = 200
                 /\ last.body = enhance_course_data(loaded[Least(ids)]).enhanced
            ELSE IF codes # {}
            THEN /\ last.status = 200
                 /\ last.body = enhance_course_data(loaded[Least(codes)]).enhanced
            ELSE last.status = 404

\* The course matching by code comes first, the one matching by id second,
\* and the second is the one returned.
C4_Witness ==
    /\ last.op = "get_course"
    /\ Len(last.loads[1]) = 2
    /\ Get(last.loads[1][1], "code", NoneV) = last.req
    /\ last.loads[1][1].id # last.req
    /\ last.loads[1][2].id = last.req
    /\ last.status = 200
    /\ last.body.id = last.req

\* C9: the departments list is the set of the non-empty department,
\* academic_org and academic_group values of the loaded courses: no empty
\* string, no duplicate, nothing missing, sorted ascending.
C9_DepartmentsAreTheSortedUnion ==
    last.op = "list_departments" =>
        LET loaded == last.loads[1]
            d == last.body.departments
            values == {FieldOrEmpty(loaded[i], f) :
                          i \in 1..Len(loaded),
                          f \in {"department", "academic_org", "academic_group"}}
                      \ {EmptyStr}
        IN  /\ last.status = 200
            /\ {d[i] : i \in 1..Len(d)} = values
            /\ \A i \in 1..Len(d) : d[i] # EmptyStr
            /\ \A i, j \in 1..Len(d) : i < j => d[i] # d[j] /\ StrLess(d[i], d[j])

\* Three distinct departments listed from courses that hold an empty value
\* and repeat a value.
C9_Witness ==
    /\ last.op = "list_departments"
    /\ Len(last.body.departments) = 3
    /\ \E i \in 1..Len(last.loads[1]) :
          Get(last.loads[1][i], "academic_org", NoneV) = EmptyStr
    /\ \E i, j \in 1..Len(last.loads[1]) :
          /\ i # j
          /\ Get(last.loads[1][i], "academic_group", NoneV)
               = Get(last.loads[1][j], "academic_group", EmptyStr)

\* C10: the loader never raises; it returns the primary file's array when the
\* primary file exists and parses, the fallback file's array when the primary
\* is absent and the fallback exists and parses, and the empty sequence
\* otherwise; and every request reads the files as they are when it is handled.
C10_LoaderNeverRaisesAndRereads ==
    last.op \in CourseOps =>
        /\ last.status # 500
        /\ Len(last.loads) = 1
        /\ last.loads[1] =
              IF primary.st = "ok" THEN primary.data
              ELSE IF primary.st = "absent" /\ fallback.st = "ok" THEN fallback.data
              ELSE <<>>

\* The primary file exists but is not JSON, the fallback holds courses, and
\* the request was served from the empty sequence.
C10_Witness ==
    /\ last.op = "list_courses"
    /\ primary.st = "malformed"
    /\ fallback.st = "ok" /\ fallback.data # <<>>
    /\ last.status = 200
    /\ last.body.total = 0

---------------------------------------------------------------------------
(* The course enhancer on its own *)

OptionalKeys == {"short_title", "credits", "component", "repeatable",
                 "consent_required", "prerequisites", "hub_requirements"}

\* For each optional key, the values a record may already hold there: one
\* that Python treats as false and one that is not the default.
PresentValues ==
    [short_title |-> {EmptyStr, <<"S">>},
     credits |-> {NoneV, Credits3},
     component |-> {EmptyStr, LAB},
     repeatable |-> {NoneV, TrueV},
     consent_required |-> {NoneV, TrueV},
     prerequisites |-> {NoneV, SomePrereqs},
     hub_requirements |-> {EmptyList, SomeHubs}]

\* The records of S, each also with key k at each of its present values.
WithKey(S, k) == S \cup {c @@ (k :> v) : c \in S, v \in PresentValues[k]}

EnhanceInputs ==
    LET base == {[id |-> <<"1">>],
                 [id |-> <<"1">>, title |-> <<"A", "l", "g", "o">>]}
    IN  WithKey(WithKey(WithKey(WithKey(WithKey(WithKey(WithKey(base,
            "short_title"), "credits"), "component"), "repeatable"),
            "consent_required"), "prerequisites"), "hub_requirements")

\* A record handed to the enhancer.
Course(course) ==
    [op |-> "course", req |-> course, status |-> 0, body |-> <<>>,
     loads |-> <<>>, aiCalls |-> 0]

Enhance ==
    /\ last.op = "course"
    /\ last' = Handled("enhance", last.req,
                       Response(0, enhance_course_data(last.req), <<>>, 0))
    /\ UNCHANGED <<primary, fallback, apiKey, inFlight>>

EnhanceAgain ==
    /\ last.op = "enhance"
    /\ last' = Handled("enhance_again", last.body.enhanced,
                       Response(0, enhance_course_data(last.body.enhanced), <<>>, 0))
    /\ UNCHANGED <<primary, fallback, apiKey, inFlight>>

InitEnhance ==
    /\ primary = [st |-> "absent", data |-> <<>>]
    /\ fallback = [st |-> "absent", data |-> <<>>]
    /\ apiKey = EmptyStr
    /\ last \in {Course(course) : course \in EnhanceInputs}
    /\ inFlight = <<>>

NextEnhance ==
    \/ Enhance
    \/ EnhanceAgain

SpecEnhance == InitEnhance /\ [][NextEnhance]_vars

DocumentedDefault(c, k) ==
    CASE k = "short_title" -> FieldOrEmpty(c, "title")
      [] k = "credits" -> Credits4
      [] k = "component" -> LEC
      [] k = "repeatable" -> FalseV
      [] k = "consent_required" -> FalseV
      [] k = "prerequisites" -> NoPrereqs
      [] k = "hub_requirements" -> EmptyList

\* C2: enhance_course_data keeps every present key with its value, whatever
\* the value; adds each absent optional key with its documented default
\* (short_title = the title, the empty string for a record without one) and
\* no other key; leaves its argument as it was; and applied to its own result
\* returns that result.
C2_EnhanceFillsOnlyAbsentKeys ==
    last.op \in {"enhance", "enhance_again"} =>
        LET c == last.req
            e == last.body.enhanced
        IN  /\ DOMAIN e = DOMAIN c \cup OptionalKeys
            /\ \A k \in DOMAIN c : e[k] = c[k]
            /\ \A k \in OptionalKeys \ DOMAIN c : e[k] = DocumentedDefault(c, k)
            /\ last.body.course = c
            /\ last.op = "enhance_again" => e = c

\* The second application, to a record in which a null credits and an empty
\* component were kept and the title was copied to short_title.
C2_Witness ==
    /\ last.op = "enhance_again"
    /\ last.req.credits = NoneV
    /\ last.req.component = EmptyStr
    /\ last.req.repeatable = FalseV
    /\ last.req.short_title = last.req.title
    /\ last.req.short_title # EmptyStr
    /\ last.body.enhanced = last.req

---------------------------------------------------------------------------
(* json.loads on the characters { } [ ] : , " digits letters and blank *)

Quote == "\""

IsDigit(ch) == \E i \in 1..Len(Digits) : Digits[i] = ch

\* The first index at or after i that holds no blank (Len(t) + 1 at the end).
RECURSIVE SkipWs(_, _)
SkipWs(t, i) == IF i <= Len(t) /\ t[i] = " " THEN SkipWs(t, i + 1) ELSE i

\* The first index at or after i that holds no digit.
RECURSIVE SkipDigits(_, _)
SkipDigits(t, i) == IF i <= Len(t) /\ IsDigit(t[i]) THEN SkipDigits(t, i + 1) ELSE i

\* The first index at or after i that holds a quote (Len(t) + 1 if none).
RECURSIVE FindQuote(_, _)
FindQuote(t, i) == IF i <= Len(t) /\ t[i] # Quote THEN FindQuote(t, i + 1) ELSE i

ParseError == [ok |-> FALSE, kind |-> "error", val |-> <<>>, next |-> 0]

\* A decoded value: its Python type and its canonical JSON text.
Parsed(kind, val, next) == [ok |-> TRUE, kind |-> kind, val |-> val, next |-> next]

\* A string literal starting at the quote t[i].
ParseString(t, i) ==
    LET j == FindQuote(t, i + 1)
    IN  IF j > Len(t) THEN ParseError
        ELSE Parsed("str", SubSeq(t, i, j), j + 1)

\* A number starting at the digit t[i]: 0, or a nonzero digit and more digits.
ParseNumber(t, i) ==
    LET j == IF t[i] = "0" THEN i + 1 ELSE SkipDigits(t, i)
    IN  Parsed("int", SubSeq(t, i, j - 1), j)

RECURSIVE ParseValue(_, _)
RECURSIVE ParseMembers(_, _, _)
RECURSIVE ParseElements(_, _, _)

\* The value that starts at t[i] (no leading blank).
ParseValue(t, i) ==
    IF i > Len(t) THEN ParseError
    ELSE IF t[i] = Quote THEN ParseString(t, i)
    ELSE IF IsDigit(t[i]) THEN ParseNumber(t, i)
    ELSE IF t[i] = "{"
    THEN LET j == SkipWs(t, i + 1)
         IN  IF j <= Len(t) /\ t[j] = "}" THEN Parsed("dict", <<"{", "}">>, j + 1)
             ELSE ParseMembers(t, j, <<"{">>)
    ELSE IF t[i] = "["
    THEN LET j == SkipWs(t, i + 1)
         IN  IF j <= Len(t) /\ t[j] = "]" THEN Parsed("list", <<"[", "]">>, j + 1)
             ELSE ParseElements(t, j, <<"[">>)
    ELSE ParseError

\* "key" : value, then a comma and more members, or the closing brace;
\* acc is the canonical text of the object so far.
ParseMembers(t, i, acc) ==
    IF i > Len(t) \/ t[i] # Quote THEN ParseError
    ELSE LET key == ParseString(t, i)
         IN  IF ~key.ok THEN ParseError
             ELSE LET c == SkipWs(t, key.next)
                  IN  IF c > Len(t) \/ t[c] # ":" THEN ParseError
                      ELSE LET v == ParseValue(t, SkipWs(t, c + 1))
                           IN  IF ~v.ok THEN ParseError
                               ELSE LET e == SkipWs(t, v.next)
                                        sofar == acc \o key.val \o <<":">> \o v.val
                                    IN  IF e > Len(t) THEN ParseError
                                        ELSE IF t[e] = "}"
                                        THEN Parsed("dict", sofar \o <<"}">>, e + 1)
                                        ELSE IF t[e] = ","
                                        THEN ParseMembers(t, SkipWs(t, e + 1),
                                                          sofar \o <<",">>)
                                        ELSE ParseError

\* value, then a comma and more elements, or the closing bracket.
ParseElements(t, i, acc) ==
    LET v == ParseValue(t, i)
    IN  IF ~v.ok THEN ParseError
        ELSE LET e == SkipWs(t, v.next)
                 sofar == acc \o v.val
             IN  IF e > Len(t) THEN ParseError
                 ELSE IF t[e] = "]" THEN Parsed("list", sofar \o <<"]">>, e + 1)
                 ELSE IF t[e] = ","
                 THEN ParseElements(t, SkipWs(t, e + 1), sofar \o <<",">>)
                 ELSE ParseError

\* json.loads(text): one value with blanks around it and nothing else.
JsonLoads(text) ==
    LET v == ParseValue(text, SkipWs(text, 1))
    IN  IF ~v.ok THEN ParseError
        ELSE IF SkipWs(text, v.next) <= Len(text) THEN ParseError
        ELSE v

\* A Python value: its type and its JSON text.
PyValue(kind, val) == [kind |-> kind, val |-> val]

PyStr(text) == PyValue("str", <<Quote>> \o text \o <<Quote>>)

PyNone == PyValue("None", <<"n", "u", "l", "l">>)

\* re.search(r"\{.*\}", text, re.DOTALL): from the first { to the last }.
BraceSpan(text) ==
    LET opens == {i \in 1..Len(text) : text[i] = "{"}
        closes == {i \in 1..Len(text) : text[i] = "}"}
        first == CHOOSE i \in opens : \A j \in opens : i <= j
        final == CHOOSE i \in closes : \A j \in closes : j <= i
    IN  IF opens = {} \/ closes = {} THEN [found |-> FALSE, group |-> <<>>]
        ELSE IF final < first THEN [found |-> FALSE, group |-> <<>>]
        ELSE [found |-> TRUE, group |-> SubSeq(text, first, final)]

---------------------------------------------------------------------------
(* POST /api/gemini/ *)

\* HTTPException(status_code, detail) leaving a handler.
HttpError(status, detail, loads, aiCalls) == Response(status, <<detail>>, loads, aiCalls)

\* isinstance(v, dict) for a dict the handler sees key by key.
IsDict(v) == "kind" \notin DOMAIN v

\* The characters of a Python string.
StrChars(v) == SubSeq(v.val, 2, Len(v.val) - 1)

\* The decoded value as a Python value.
Decoded(p) == PyValue(p.kind, p.val)

\* An extraction that returns a decoded array or scalar as it is.
ExtractJsonWithoutWrapper(result) ==
    LET text == IF IsDict(result) THEN Get(result, "result", PyNone)
                ELSE IF result.kind = "str" THEN result
                ELSE PyNone
        chars == IF text.kind = "str" THEN StrChars(text) ELSE <<>>
        whole == JsonLoads(chars)
        m == BraceSpan(chars)
        inner == JsonLoads(m.group)
    IN  IF text.kind = "str" /\ chars # <<>>
        THEN IF whole.ok THEN Decoded(whole)
             ELSE IF m.found /\ inner.ok /\ inner.kind = "dict" THEN Decoded(inner)
             ELSE result
        ELSE result

\* Lines 217-243: what the handler returns for the collaborator's result.
ExtractJson(result) ==
    LET text == IF IsDict(result) THEN Get(result, "result", PyNone)
                ELSE IF result.kind = "str" THEN result
                ELSE PyNone
        chars == IF text.kind = "str" THEN StrChars(text) ELSE <<>>
        whole == JsonLoads(chars)
        m == BraceSpan(chars)
        inner == JsonLoads(m.group)
    IN  IF text.kind = "str" /\ chars # <<>>
        THEN IF whole.ok
             THEN IF whole.kind = "dict" THEN Decoded(whole)
                  ELSE [result |-> Decoded(whole),
                        model |-> IF IsDict(result) THEN Get(result, "model", PyNone)
                                  ELSE PyNone]
             ELSE IF m.found /\ inner.ok /\ inner.kind = "dict" THEN Decoded(inner)
             ELSE result
        ELSE result

\* ai is what generate_ai_response does when awaited: raise, or return a value.
gemini_endpoint(body, ai) ==
    LET prompt == Get(body, "prompt", NoneV)
    IN  IF ~Truthy(prompt) THEN HttpError(400, "Prompt is required", <<>>, 0)
        ELSE IF ai.raised THEN ServerError(<<>>, 1)
        ELSE Response(200, ExtractJson(ai.value), <<>>, 1)

---------------------------------------------------------------------------
(* Inputs of the AI endpoints *)

\* The longest response text, in fragments.
MaxFragments == 3

Fragments ==
    {<<"{", Quote, "a", Quote, ":", "1", "}">>,
     <<"{", Quote, "a", Quote, ":">>,
     <<"a", " ">>,
     <<"{">>,
     <<"}">>,
     <<"1">>,
     <<"[", "1", "]">>,
     <<Quote, "a", Quote>>}

RECURSIVE Concatenations(_, _)
Concatenations(S, n) ==
    IF n = 0 THEN {<<>>}
    ELSE LET shorter == Concatenations(S, n - 1)
         IN  shorter \cup {s \o x : s \in shorter, x \in S}

ResponseTexts == Concatenations(Fragments, MaxFragments)

ModelName == PyStr(<<"g", "e", "m">>)

Returned(v) == [raised |-> FALSE, value |-> v]

Raised == [raised |-> TRUE, value |-> PyNone]

\* What awaiting generate_ai_response can give the gemini handler.
GeminiOutcomes ==
    {Raised, Returned([error |-> PyStr(<<"e">>)])}
        \cup {Returned([result |-> PyStr(t), model |-> ModelName]) : t \in ResponseTexts}
        \cup {Returned(PyStr(t)) : t \in ResponseTexts}

EmptyDict == <<>>

GeminiBodies == {EmptyDict, [prompt |-> EmptyStr], [prompt |-> <<"h", "i">>]}

Gemini ==
    /\ Idle
    /\ \E body \in GeminiBodies, ai \in GeminiOutcomes :
            /\ last' = Handled("gemini", [body |-> body, ai |-> ai],
                               gemini_endpoint(body, ai))
            /\ UNCHANGED <<primary, fallback, apiKey, inFlight>>

---------------------------------------------------------------------------
(* POST /api/chatbot/ *)

kw_find == <<"f", "i", "n", "d">>
kw_search == <<"s", "e", "a", "r", "c", "h">>
kw_look_for == <<"l", "o", "o", "k", " ", "f", "o", "r">>
kw_where == <<"w", "h", "e", "r", "e">>
kw_course == <<"c", "o", "u", "r", "s", "e">>
kw_plan == <<"p", "l", "a", "n">>
kw_semester == <<"s", "e", "m", "e", "s", "t", "e", "r">>
kw_schedule == <<"s", "c", "h", "e", "d", "u", "l", "e">>
kw_career == <<"c", "a", "r", "e", "e", "r">>
kw_recommendation == <<"r", "e", "c", "o", "m", "m", "e", "n", "d", "a", "t", "i", "o", "n">>
kw_professor == <<"p", "r", "o", "f", "e", "s", "s", "o", "r">>
kw_faculty == <<"f", "a", "c", "u", "l", "t", "y">>
kw_export == <<"e", "x", "p", "o", "r", "t">>
kw_pdf == <<"p", "d", "f">>
kw_navigate == <<"n", "a", "v", "i", "g", "a", "t", "e">>
kw_use == <<"u", "s", "e">>
kw_how == <<"h", "o", "w">>
kw_help == <<"h", "e", "l", "p">>
kw_guide == <<"g", "u", "i", "d", "e">>

Fallback == <<"f", "a", "l", "l", "b", "a", "c", "k">>

\* any(word in msg_lower for word in words)
AnyIn(words, msg_lower) == \E word \in words : IsSubstring(word, msg_lower)

\* A reply that tries the navigation rule before the others.
get_fallback_response_help_first(message, course_count) ==
    LET msg_lower == Lower(message)
    IN  IF AnyIn({kw_navigate, kw_use, kw_how, kw_help, kw_guide}, msg_lower)
        THEN <<"I can help you navigate the BU Course Planner! ... Search and browse ",
               ToString(course_count), " courses">>
        ELSE IF /\ AnyIn({kw_find, kw_search, kw_look_for, kw_where}, msg_lower)
                /\ IsSubstring(kw_course, msg_lower)
        THEN <<"To search for courses, go to the **Explorer** page">>
        ELSE IF /\ IsSubstring(kw_plan, msg_lower)
                /\ AnyIn({kw_semester, kw_schedule}, msg_lower)
        THEN <<"To plan your semesters, go to the **Planner** page">>
        ELSE IF IsSubstring(kw_career, msg_lower)
                \/ IsSubstring(kw_recommendation, msg_lower)
        THEN <<"For career advice and course recommendations, go to the **Progress** page">>
        ELSE IF IsSubstring(kw_professor, msg_lower)
                \/ IsSubstring(kw_faculty, msg_lower)
        THEN <<"To research professors, go to the **Professors** page">>
        ELSE IF IsSubstring(kw_export, msg_lower) \/ IsSubstring(kw_pdf, msg_lower)
        THEN <<"To export your semester plan to PDF, go to the **Planner** page">>
        ELSE <<"I'm here to help you navigate the BU Course Planner! ... Search ",
               ToString(course_count), " BU courses">>

\* The rule-based reply; the texts are cut to the words that tell them apart.
get_fallback_response(message, course_count) ==
    LET msg_lower == Lower(message)
    IN  IF /\ AnyIn({kw_find, kw_search, kw_look_for, kw_where}, msg_lower)
           /\ IsSubstring(kw_course, msg_lower)
        THEN <<"To search for courses, go to the **Explorer** page">>
        ELSE IF /\ IsSubstring(kw_plan, msg_lower)
                /\ AnyIn({kw_semester, kw_schedule}, msg_lower)
        THEN <<"To plan your semesters, go to the **Planner** page">>
        ELSE IF IsSubstring(kw_career, msg_lower)
                \/ IsSubstring(kw_recommendation, msg_lower)
        THEN <<"For career advice and course recommendations, go to the **Progress** page">>
        ELSE IF IsSubstring(kw_professor, msg_lower)
                \/ IsSubstring(kw_faculty, msg_lower)
        THEN <<"To research professors, go to the **Professors** page">>
        ELSE IF IsSubstring(kw_export, msg_lower) \/ IsSubstring(kw_pdf, msg_lower)
        THEN <<"To export your semester plan to PDF, go to the **Planner** page">>
        ELSE IF AnyIn({kw_navigate, kw_use, kw_how, kw_help, kw_guide}, msg_lower)
        THEN <<"I can help you navigate the BU Course Planner! ... Search and browse ",
               ToString(course_count), " courses">>
        ELSE <<"I'm here to help you navigate the BU Course Planner! ... Search ",
               ToString(course_count), " BU courses">>

\* chat_history[-5:]
LastFive(history) ==
    SubSeq(history, IF Len(history) > 5 THEN Len(history) - 4 ELSE 1, Len(history))

\* Building the context raises KeyError when an entry lacks role or content.
ContextRaises(history) ==
    \E i \in 1..Len(LastFive(history)) :
        ~({"role", "content"} \subseteq DOMAIN LastFive(history)[i])

FallbackReply(user_message, course_count) ==
    [response |-> PyStr(get_fallback_response(user_message, course_count)),
     model |-> PyStr(Fallback),
     message |-> PyStr(user_message)]

\* ai is what generate_ai_response does if it is awaited.  website_knowledge,
\* dept_list and context reach only the collaborator and are left out.
chatbot_conversation(prim, fall, key, request, ai) ==
    LET user_message == Get(request, "message", EmptyStr)
        chat_history == Get(request, "history", <<>>)
        l == get_all_courses(prim, fall)
        courses == l.value
        course_count == Len(courses)
    IN  IF ~Truthy(user_message) THEN HttpError(400, "Message is required", <<>>, 0)
        ELSE IF l.raised THEN ServerError(<<>>, 0)
        ELSE IF ~Truthy(key)
        THEN Response(200, FallbackReply(user_message, course_count), <<courses>>, 0)
        ELSE IF ContextRaises(chat_history) THEN ServerError(<<courses>>, 0)
        ELSE IF ai.raised
        THEN Response(200, FallbackReply(user_message, course_count), <<courses>>, 1)
        ELSE IF ~IsDict(ai.value)      \* response.get: AttributeError, caught
        THEN Response(200, FallbackReply(user_message, course_count), <<courses>>, 1)
        ELSE Response(200,
                      [response |-> Get(ai.value, "result", PyStr(EmptyStr)),
                       model |-> Get(ai.value, "model", PyStr(EmptyStr)),
                       message |-> PyStr(user_message)],
                      <<courses>>, 1)

---------------------------------------------------------------------------
(* POST /api/ai-advisor/ *)

\* An advisor that loads the dataset before it looks at the request.
ai_career_advisor_loading_first(prim, fall, request, rec) ==
    LET career_goal == Get(request, "career_goal", EmptyStr)
        l == get_all_courses(prim, fall)
        courses == l.value
    IN  IF l.raised THEN ServerError(<<>>, 0)
        ELSE IF ~Truthy(career_goal)
        THEN HttpError(400, "Career goal is required", <<courses>>, 0)
        ELSE IF rec.raised THEN ServerError(<<courses>>, 1)
        ELSE Response(200, rec.value, <<courses>>, 1)

\* rec is what get_career_recommendations does if it is called.
ai_career_advisor(prim, fall, request, rec) ==
    LET career_goal == Get(request, "career_goal", EmptyStr)
        l == get_all_courses(prim, fall)
        courses == l.value
    IN  IF ~Truthy(career_goal) THEN HttpError(400, "Career goal is required", <<>>, 0)
        ELSE IF l.raised THEN ServerError(<<>>, 0)
        ELSE IF rec.raised THEN ServerError(<<courses>>, 1)
        ELSE Response(200, rec.value, <<courses>>, 1)

---------------------------------------------------------------------------
(* GET /api/ai/models *)

\* An exception in flight: its class and, for HTTPException, its status.
Exc(class, status) == [raised |-> TRUE, class |-> class, status |-> status, value |-> PyNone]

NoExc(v) == [raised |-> FALSE, class |-> "", status |-> 0, value |-> v]

\* The try block of list_ai_models.
ListModelsBody(key, importOk, listing) ==
    IF ~importOk THEN Exc("ImportError", 0)
    ELSE IF ~Truthy(key) THEN Exc("HTTPException", 400)
    ELSE IF listing.raised THEN Exc("Exception", 0)
    ELSE NoExc([models |-> listing.value])

\* The classes `except Exception` catches: HTTPException derives from Exception.
CaughtByExceptException == {"Exception", "ImportError", "HTTPException"}

list_ai_models(key, importOk, listing) ==
    LET r == ListModelsBody(key, importOk, listing)
        calls == IF importOk /\ Truthy(key) THEN 1 ELSE 0
    IN  IF r.raised
        THEN IF r.class \in CaughtByExceptException
             THEN HttpError(500, "str(e)", <<>>, calls)
             ELSE IF r.class = "HTTPException"
             THEN HttpError(r.status, "GOOGLE_API_KEY not configured on server", <<>>, calls)
             ELSE ServerError(<<>>, calls)
        ELSE Response(200, r.value, <<>>, calls)

---------------------------------------------------------------------------
(* GET /api/professors/{professor_name} *)

\* `if not v` for None, a string or a dict.
IsFalse(v) ==
    IF IsDict(v) THEN DOMAIN v = {}
    ELSE v.kind = "None" \/ (v.kind = "str" /\ StrChars(v) = <<>>)

\* professor is what get_professor_by_name returns; author, works and summary
\* are what get_author_data, get_author_works and generate_research_summary
\* do if they are called; coauthors is what get_coauthors returns.
get_professor_details(professor, author, works, coauthors, summary) ==
    LET oaid == Get(professor, "oaid", PyStr(EmptyStr))
    IN  IF IsFalse(professor) THEN HttpError(404, "Professor not found", <<>>, 0)
        ELSE IF ~IsFalse(oaid)
        THEN IF author.raised \/ works.raised THEN ServerError(<<>>, 0)
             ELSE IF ~IsFalse(author.value)
             THEN IF summary.raised THEN ServerError(<<>>, 0)
                  ELSE Response(200,
                                [professor |-> professor,
                                 openalex_data |-> author.value,
                                 recent_works |-> works.value,
                                 coauthors |-> coauthors,
                                 research_summary |-> summary.value],
                                <<>>, 0)
             ELSE Response(200, [professor |-> professor], <<>>, 0)
        ELSE Response(200, [professor |-> professor], <<>>, 0)

---------------------------------------------------------------------------
(* The AI and professor endpoints as a state machine *)

\* The longest chatbot message, in vocabulary entries.
MaxWords == 2

Vocabulary ==
    {<<"f", "i", "n", "d">>,
     <<"s", "e", "a", "r", "c", "h">>,
     <<"l", "o", "o", "k", " ", "f", "o", "r">>,
     <<"w", "h", "e", "r", "e">>,
     <<"c", "o", "u", "r", "s", "e">>,
     <<"p", "l", "a", "n">>,
     <<"s", "e", "m", "e", "s", "t", "e", "r">>,
     <<"s", "c", "h", "e", "d", "u", "l", "e">>,
     <<"c", "a", "r", "e", "e", "r">>,
     <<"r", "e", "c", "o", "m", "m", "e", "n", "d", "a", "t", "i", "o", "n">>,
     <<"p", "r", "o", "f", "e", "s", "s", "o", "r">>,
     <<"f", "a", "c", "u", "l", "t", "y">>,
     <<"e", "x", "p", "o", "r", "t">>,
     <<"p", "d", "f">>,
     <<"n", "a", "v", "i", "g", "a", "t", "e">>,
     <<"u", "s", "e">>,
     <<"h", "o", "w">>,
     <<"h", "e", "l", "p">>,
     <<"g", "u", "i", "d", "e">>,
     <<"h", "i">>,
     <<"P", "l", "a", "n">>,
     <<"P", "D", "F">>}

RECURSIVE Sentences(_, _)
Sentences(W, n) ==
    IF n = 0 THEN {<<>>}
    ELSE LET shorter == Sentences(W, n - 1)
         IN  shorter \cup W
                 \cup {s \o <<" ">> \o w : s \in shorter \ {<<>>}, w \in W}

Messages == Sentences(Vocabulary, MaxWords)

Histories ==
    {<<>>,
     <<[role |-> <<"u">>, content |-> <<"h", "i">>]>>,
     <<[role |-> <<"u">>]>>}

ChatRequests ==
    {EmptyDict}
        \cup {[message |-> m] : m \in Messages}
        \cup {[message |-> m, history |-> h] : m \in Messages, h \in Histories \ {<<>>}}

ChatOutcomes ==
    {Raised,
     Returned(PyStr(<<"o", "k">>)),
     Returned([error |-> PyStr(<<"e">>)]),
     Returned([result |-> PyStr(<<"o", "k">>), model |-> ModelName])}

Chatbot ==
    /\ Idle
    /\ \E request \in ChatRequests, ai \in ChatOutcomes :
            /\ last' = Handled("chatbot", [body |-> request, ai |-> ai],
                               chatbot_conversation(primary, fallback, apiKey, request, ai))
            /\ UNCHANGED <<primary, fallback, apiKey, inFlight>>

AdvisorRequests ==
    {EmptyDict, [career_goal |-> EmptyStr], [career_goal |-> <<"d", "e", "v">>],
     [major |-> <<"C", "S">>]}

AdvisorOutcomes == {Raised, Returned([career |-> PyStr(<<"d", "e", "v">>)])}

AiAdvisor ==
    /\ Idle
    /\ \E request \in AdvisorRequests, rec \in AdvisorOutcomes :
            /\ last' = Handled("ai_advisor", [body |-> request, ai |-> rec],
                               ai_career_advisor(primary, fallback, request, rec))
            /\ UNCHANGED <<primary, fallback, apiKey, inFlight>>

ListingOutcomes == {Raised, Returned(PyValue("list", <<"[", Quote, "g", Quote, "]">>))}

ListAiModels ==
    /\ Idle
    /\ \E importOk \in BOOLEAN, listing \in ListingOutcomes :
            /\ last' = Handled("list_ai_models", [importOk |-> importOk, listing |-> listing],
                               list_ai_models(apiKey, importOk, listing))
            /\ UNCHANGED <<primary, fallback, apiKey, inFlight>>

ProfessorName == PyStr(<<"A", "d", "a">>)

Professors ==
    {PyNone,
     [name |-> ProfessorName],
     [name |-> ProfessorName, oaid |-> PyStr(EmptyStr)],
     [name |-> ProfessorName, oaid |-> PyStr(<<"A", "1">>)]}

AuthorOutcomes == {Raised, Returned(PyNone), Returned([id |-> PyStr(<<"A", "1">>)])}

WorksOutcomes == {Raised, Returned(PyValue("list", <<"[", "]">>))}

SummaryOutcomes == {Raised, Returned([total_works |-> PyValue("int", <<"1">>)])}

ProfessorDetails ==
    /\ Idle
    /\ \E professor \in Professors, author \in AuthorOutcomes,
          works \in WorksOutcomes, summary \in SummaryOutcomes :
            /\ last' = Handled("get_professor_details",
                               [professor |-> professor, author |-> author,
                                works |-> works, summary |-> summary],
                               get_professor_details(professor, author, works,
                                                     PyValue("list", <<"[", "]">>),
                                                     summary))
            /\ UNCHANGED <<primary, fallback, apiKey, inFlight>>

InitAI ==
    /\ primary \in {[st |-> "absent", data |-> <<>>], [st |-> "ok", data |-> <<K1, K2>>]}
    /\ fallback = [st |-> "absent", data |-> <<>>]
    /\ apiKey \in {NoneV, EmptyStr, <<"k">>}
    /\ last = NoRequest
    /\ inFlight = <<>>

NextAI ==
    \/ Gemini
    \/ Chatbot
    \/ AiAdvisor
    \/ ListAiModels
    \/ ProfessorDetails
    \/ Deliver

SpecAI == InitAI /\ [][NextAI]_vars

---------------------------------------------------------------------------
(* Properties of the AI and professor endpoints *)

\* The text of the collaborator's result: its result entry, or the result
\* itself when it is a string; empty when there is none.
ResponseText(raw) ==
    IF IsDict(raw)
    THEN IF "result" \in DOMAIN raw THEN StrChars(raw.result) ELSE <<>>
    ELSE StrChars(raw)

\* The model the collaborator's result names, None when it names none.
ResponseModel(raw) ==
    IF IsDict(raw) /\ "model" \in DOMAIN raw THEN raw.model ELSE PyNone

\* The fallback order with a given wrapper for a decoded array or scalar.
Extraction(raw, Wrap(_)) ==
    LET text == ResponseText(raw)
        whole == JsonLoads(text)
        span == BraceSpan(text)
        inner == JsonLoads(span.group)
    IN  IF text = <<>> THEN raw
        ELSE IF whole.ok /\ whole.kind = "dict" THEN Decoded(whole)
        ELSE IF whole.ok THEN Wrap(Decoded(whole))
        ELSE IF span.found /\ inner.ok /\ inner.kind = "dict" THEN Decoded(inner)
        ELSE raw

\* C3 as stated: whole-parse, wrap as {result: value}, substring-parse,
\* raw passthrough.
C3_WrapperHoldsOnlyResult ==
    (last.op = "gemini" /\ last.status = 200) =>
        LET raw == last.req.ai.value
            Wrap(v) == [result |-> v]
        IN  last.body = Extraction(raw, Wrap)

\* C3: for every AI response text the extraction is whole-parse (an object is
\* returned as it is), wrap (an array or scalar v becomes {result: v, model: m}
\* with m the model the AI response names, null when it names none),
\* substring-parse (only when the whole text does not parse: the span from the
\* first { to the last }, returned if it is an object), raw passthrough.
C3_ExtractionOrder ==
    (last.op = "gemini" /\ last.status = 200) =>
        LET raw == last.req.ai.value
            Wrap(v) == [result |-> v, model |-> ResponseModel(raw)]
        IN  last.body = Extraction(raw, Wrap)

\* A response whose text is a JSON array came back wrapped, with the model.
C3_Witness ==
    /\ last.op = "gemini"
    /\ last.status = 200
    /\ IsDict(last.req.ai.value)
    /\ JsonLoads(ResponseText(last.req.ai.value)).kind = "list"
    /\ DOMAIN last.body = {"result", "model"}
    /\ last.body.result.kind = "list"
    /\ last.body.model = ModelName

\* The AI collaborator was called and raised or returned no usable object.
AiFailed ==
    /\ last.aiCalls = 1
    /\ last.req.ai.raised \/ ~IsDict(last.req.ai.value)

\* A rule matches when the message holds one of `any` and, if `also` is not
\* empty, one of `also`.
Rule(any, also, text) == [any |-> any, also |-> also, text |-> text]

RuleMatches(rule, msg) ==
    /\ \E w \in rule.any : IsSubstring(w, msg)
    /\ rule.also = {} \/ \E w \in rule.also : IsSubstring(w, msg)

\* The fallback rules in their order, with the keywords of the first rule given.
FallbackRules(firstRuleWords, count) ==
    <<Rule(firstRuleWords, {kw_course},
           <<"To search for courses, go to the **Explorer** page">>),
      Rule({kw_plan}, {kw_semester, kw_schedule},
           <<"To plan your semesters, go to the **Planner** page">>),
      Rule({kw_career, kw_recommendation}, {},
           <<"For career advice and course recommendations, go to the **Progress** page">>),
      Rule({kw_professor, kw_faculty}, {},
           <<"To research professors, go to the **Professors** page">>),
      Rule({kw_export, kw_pdf}, {},
           <<"To export your semester plan to PDF, go to the **Planner** page">>),
      Rule({kw_navigate, kw_use, kw_how, kw_help, kw_guide}, {},
           <<"I can help you navigate the BU Course Planner! ... Search and browse ",
             ToString(count), " courses">>)>>

DefaultReply(count) ==
    <<"I'm here to help you navigate the BU Course Planner! ... Search ",
      ToString(count), " BU courses">>

FirstRuleReply(rules, msg, count) ==
    LET hits == {i \in 1..Len(rules) : RuleMatches(rules[i], msg)}
    IN  IF hits = {} THEN DefaultReply(count)
        ELSE rules[CHOOSE i \in hits : \A j \in hits : i <= j].text

\* The chatbot answers a non-empty message with the fallback reply chosen
\* from the given rules whenever the credential is missing or the AI failed.
ChatbotFallsBack(firstRuleWords) ==
    (/\ last.op = "chatbot"
     /\ Get(last.req.body, "message", EmptyStr) # EmptyStr
     /\ ~Truthy(apiKey) \/ AiFailed) =>
        LET msg == last.req.body.message
            count == Len(last.loads[1])
        IN  /\ last.status = 200
            /\ last.body.model = PyStr(Fallback)
            /\ last.body.response =
                   PyStr(FirstRuleReply(FallbackRules(firstRuleWords, count),
                                        Lower(msg), count))

RequiredField ==
    [gemini |-> "prompt", chatbot |-> "message", ai_advisor |-> "career_goal"]

\* C6: a gemini, chatbot or ai-advisor request whose required field (prompt,
\* message, career_goal) is missing or empty is answered 400, and on that
\* request the dataset loader is not invoked and the AI collaborator is not
\* called.
C6_ValidationComesFirst ==
    (/\ last.op \in DOMAIN RequiredField
     /\ Get(last.req.body, RequiredField[last.op], EmptyStr) = EmptyStr) =>
        /\ last.status = 400
        /\ last.loads = <<>>
        /\ last.aiCalls = 0

\* An advisor request with an empty career goal, refused while the dataset
\* and the credential were there to be used.
C6_Witness ==
    /\ last.op = "ai_advisor"
    /\ "career_goal" \in DOMAIN last.req.body
    /\ last.req.body.career_goal = EmptyStr
    /\ ~last.req.ai.raised
    /\ primary.st = "ok"
    /\ Truthy(apiKey)
    /\ last.status = 400

\* C7: GET /api/ai/models answers 400 whenever the credential is not
\* configured, and the model list when it is configured and the listing
\* succeeds (a client library that cannot be imported is left aside).
C7_ModelsNeedTheCredential ==
    last.op = "list_ai_models" =>
        /\ (~Truthy(apiKey) /\ last.req.importOk) => last.status = 400
        /\ (Truthy(apiKey) /\ last.req.importOk /\ ~last.req.listing.raised) =>
               /\ last.status = 200
               /\ last.body = [models |-> last.req.listing.value]

\* C8: GET /api/professors/{name} answers 404 for an unknown professor, the
\* professor with the enriched research data when the professor has an
\* external id, and the bare record only when the professor has none (a
\* collaborator that raises is left aside).
C8_BareRecordOnlyWithoutExternalId ==
    (/\ last.op = "get_professor_details"
     /\ ~last.req.author.raised
     /\ ~last.req.works.raised
     /\ ~last.req.summary.raised) =>
        LET p == last.req.professor
            known == IsDict(p)
            hasId == known /\ "oaid" \in DOMAIN p /\ StrChars(p.oaid) # <<>>
        IN  IF ~known THEN last.status = 404
            ELSE /\ last.status = 200
                 /\ last.body.professor = p
                 /\ IF hasId
                    THEN DOMAIN last.body = {"professor", "openalex_data", "recent_works",
                                             "coauthors", "research_summary"}
                    ELSE DOMAIN last.body = {"professor"}


---------------------------------------------------------------------------
(* Requests handled concurrently: the two course-listing handlers taken one
   file-system operation at a time, with the backing files changing in
   between.  Every variable of a handler is local to its call, so a request
   in flight is one entry of inFlight. *)

\* The number of requests in flight at once.
MaxRequests == 2

AbsentFile == [st |-> "absent", data |-> <<>>]

\* What the two files hold while requests are in flight.
PrimaryContents ==
    {AbsentFile, [st |-> "malformed", data |-> <<>>], [st |-> "ok", data |-> <<K1, K3>>]}

SampleContents == {AbsentFile, [st |-> "ok", data |-> <<K2>>]}

\* The body a handler has not built yet.
NoBody == [courses |-> <<>>, total |-> 0]

\* No handler running in this place.
NoHandler ==
    [pc |-> "idle", op |-> "none", q |-> EmptyStr, department |-> NoneV,
     level |-> NoneV, json_path |-> "none", read |-> AbsentFile,
     courses |-> <<>>, loads |-> 0, body |-> NoBody]

\* The requests sent: the listing, the search without criteria, and a search
\* by text and level.
ConcurrentRequests ==
    {[op |-> "list_courses", q |-> EmptyStr, department |-> NoneV, level |-> NoneV],
     [op |-> "search_courses", q |-> EmptyStr, department |-> NoneV, level |-> NoneV],
     [op |-> "search_courses", q |-> <<"c", "s">>, department |-> NoneV,
      level |-> <<"I", "N", "T", "R", "O">>]}

\* The file a path names, as it is now.
FileAt(json_path, prim, fall) ==
    IF json_path = "primary" THEN prim
    ELSE IF json_path = "fallback" THEN fall
    ELSE AbsentFile

\* The handler is entered; its first statement calls get_all_courses().
Arrive(i) ==
    /\ inFlight[i].pc = "idle"
    /\ \E request \in ConcurrentRequests :
           inFlight' = [inFlight EXCEPT ![i] =
               [NoHandler EXCEPT !.pc = "exists_primary", !.op = request.op,
                                 !.q = request.q, !.department = request.department,
                                 !.level = request.level]]
    /\ UNCHANGED <<primary, fallback, apiKey, last>>

\* if not json_path.exists(): on the primary path.
ExistsPrimary(i) ==
    /\ inFlight[i].pc = "exists_primary"
    /\ inFlight' = [inFlight EXCEPT ![i] =
           IF primary.st # "absent"
           THEN [@ EXCEPT !.pc = "open", !.json_path = "primary"]
           ELSE [@ EXCEPT !.pc = "exists_fallback"]]
    /\ UNCHANGED <<primary, fallback, apiKey, last>>

\* if not json_path.exists(): return [] on the sample path.
ExistsFallback(i) ==
    /\ inFlight[i].pc = "exists_fallback"
    /\ inFlight' = [inFlight EXCEPT ![i] =
           IF fallback.st # "absent"
           THEN [@ EXCEPT !.pc = "open", !.json_path = "fallback"]
           ELSE [@ EXCEPT !.pc = "loaded", !.courses = <<>>, !.loads = @ + 1]]
    /\ UNCHANGED <<primary, fallback, apiKey, last>>

\* with open(json_path) as f: json.load(f), on the file as it is by now; an
\* exception is caught and turned into [].
OpenAndLoad(i) ==
    /\ inFlight[i].pc = "open"
    /\ LET file == FileAt(inFlight[i].json_path, primary, fallback)
           r == OpenAndParse(file)
       IN  inFlight' = [inFlight EXCEPT ![i] =
               [@ EXCEPT !.pc = "loaded", !.read = file,
                         !.courses = IF r.raised THEN <<>> ELSE r.value,
                         !.loads = @ + 1]]
    /\ UNCHANGED <<primary, fallback, apiKey, last>>

\* {"courses": enhanced_courses, "total": len(enhanced_courses)}
Listing(courses) ==
    LET enhanced_courses == EnhanceAll(courses)
    IN  [courses |-> enhanced_courses, total |-> Len(enhanced_courses)]

\* The rest of search_courses, from the list it loaded.
Searching(courses, q, department, level) ==
    IF ~Truthy(q) /\ ~Truthy(department) /\ ~Truthy(level)
    THEN Listing(courses)
    ELSE LET query == IF Truthy(q) THEN Lower(q) ELSE EmptyStr
             results == SearchLoop(courses, 1, query, department, level, <<>>)
         IN  [courses |-> results, total |-> Len(results)]

\* A handler that goes back to the files for the list it answers from.
HandlerBodyReloading(r, prim, fall) ==
    LET courses == load_courses_from_json(prim, fall).value
    IN  IF r.op = "list_courses" THEN Listing(courses)
        ELSE Searching(courses, r.q, r.department, r.level)

\* What a handler does after get_all_courses() returned: it works on its
\* local variable courses and on nothing else, whatever the files hold now.
HandlerBody(r, prim, fall) ==
    IF r.op = "list_courses" THEN Listing(r.courses)
    ELSE Searching(r.courses, r.q, r.department, r.level)

\* The handler builds its response.
Respond(i) ==
    /\ inFlight[i].pc = "loaded"
    /\ inFlight' = [inFlight EXCEPT ![i] =
           [@ EXCEPT !.pc = "done",
                     !.body = HandlerBody(inFlight[i], primary, fallback)]]
    /\ UNCHANGED <<primary, fallback, apiKey, last>>

\* The response is sent and the handler's variables are gone.
Send(i) ==
    /\ inFlight[i].pc = "done"
    /\ inFlight' = [inFlight EXCEPT ![i] = NoHandler]
    /\ UNCHANGED <<primary, fallback, apiKey, last>>

\* The CSV processor, or anyone, replaces or removes a file.
ReplacePrimary ==
    \E f \in PrimaryContents :
        /\ f # primary
        /\ primary' = f
        /\ UNCHANGED <<fallback, apiKey, last, inFlight>>

ReplaceFallback ==
    \E f \in SampleContents :
        /\ f # fallback
        /\ fallback' = f
        /\ UNCHANGED <<primary, apiKey, last, inFlight>>

InitConcurrent ==
    /\ primary \in PrimaryContents
    /\ fallback \in SampleContents
    /\ apiKey = EmptyStr
    /\ last = NoRequest
    /\ inFlight = [i \in 1..MaxRequests |-> NoHandler]

NextConcurrent ==
    \/ \E i \in 1..MaxRequests : Arrive(i)
    \/ \E i \in 1..MaxRequests : ExistsPrimary(i)
    \/ \E i \in 1..MaxRequests : ExistsFallback(i)
    \/ \E i \in 1..MaxRequests : OpenAndLoad(i)
    \/ \E i \in 1..MaxRequests : Respond(i)
    \/ \E i \in 1..MaxRequests : Send(i)
    \/ ReplacePrimary
    \/ ReplaceFallback

SpecConcurrent == InitConcurrent /\ [][NextConcurrent]_vars

---------------------------------------------------------------------------
(* Properties of the concurrent handlers *)

\* The same request handled with nothing else going on, the primary file
\* holding what the request read and no sample file.
HandledAlone(r) ==
    IF r.op = "list_courses" THEN list_courses(r.read, AbsentFile)
    ELSE search_courses(r.read, AbsentFile, r.q, r.department, r.level)

\* C11: whatever the interleaving of the requests in flight and of the
\* changes to the two files, a request that has built its response has loaded
\* the dataset exactly once, its total is the length of its own courses list,
\* and its body is the one the same request gets when it is handled alone on
\* the file content it read, from the same single load.
C11_ResponseComesFromOwnSingleLoad ==
    \A i \in DOMAIN inFlight :
        LET r == inFlight[i]
            alone == HandledAlone(r)
        IN  r.pc = "done" =>
                /\ r.loads = 1
                /\ r.body.total = Len(r.body.courses)
                /\ alone.status = 200
                /\ alone.loads = <<r.courses>>
                /\ r.body = alone.body

\* A search has answered from the two courses it read from the primary
\* file, keeping one of them, the file has changed since, and another request
\* in flight has loaded something else.
C11_Witness ==
    \E i, j \in DOMAIN inFlight :
        /\ i # j
        /\ inFlight[i].pc = "done"
        /\ inFlight[i].op = "search_courses"
        /\ inFlight[i].read.st = "ok"
        /\ inFlight[i].read # primary
        /\ Len(inFlight[i].courses) = 2
        /\ inFlight[i].body.total = 1
        /\ inFlight[j].pc \in {"loaded", "done"}
        /\ inFlight[j].courses # inFlight[i].courses

===========================================================================
